---- MODULE Spec2Model ----
(***************************************************************************)
(* A model of the Defect Detective backend (src/backend/server.py): the    *)
(* three HTTP handlers analyze_defects, get_analysis_history and           *)
(* get_analysis, the Gemini client LlmChat.send_message, and the store     *)
(* db.analyses.                                                            *)
(*                                                                         *)
(* Text is a sequence of lexical tokens.  Whitespace, the backtick and the *)
(* letters of the fence marker are one-character tokens; a JSON string     *)
(* literal, a JSON number and the literals null/true are one token each.   *)
(* The handler slices text only where it has just matched the fence        *)
(* characters, so a slice never cuts through a literal.                    *)
(***************************************************************************)
EXTENDS Integers, Sequences, FiniteSets, TLC

(* ------------------------------------------------------------------ *)
(* Bounds of the model.                                                *)
(* ------------------------------------------------------------------ *)
MaxReq == 2
MaxSec == 0

(* ------------------------------------------------------------------ *)
(* Python values that are not text.                                    *)
(* ------------------------------------------------------------------ *)
None == "<None>"

Min(S) == CHOOSE m \in S : \A n \in S : m <= n

(* ------------------------------------------------------------------ *)
(* str methods used by the handlers, on token sequences.               *)
(* ------------------------------------------------------------------ *)
Whitespace == {" ", "\n"}

startswith(s, p) == Len(s) >= Len(p) /\ SubSeq(s, 1, Len(p)) = p

endswith(s, p) == Len(s) >= Len(p) /\ SubSeq(s, Len(s) - Len(p) + 1, Len(s)) = p

\* s[n:]
SliceFrom(s, n) == SubSeq(s, n + 1, Len(s))

\* s[:-n], n > 0
SliceDropLast(s, n) == SubSeq(s, 1, Len(s) - n)

\* x in s, for a one-token x
Contains(s, x) == \E i \in 1..Len(s) : s[i] = x

RECURSIVE lstrip(_), rstrip(_)
lstrip(s) == IF Len(s) > 0 /\ s[1] \in Whitespace THEN lstrip(Tail(s)) ELSE s
rstrip(s) == IF Len(s) > 0 /\ s[Len(s)] \in Whitespace THEN rstrip(SubSeq(s, 1, Len(s) - 1)) ELSE s
strip(s) == rstrip(lstrip(s))

\* "\n".join(texts)
RECURSIVE join(_)
join(texts) ==
    IF Len(texts) = 0 THEN <<>>
    ELSE IF Len(texts) = 1 THEN texts[1]
    ELSE texts[1] \o <<"\n">> \o join(Tail(texts))

(* ------------------------------------------------------------------ *)
(* JSON values, as json.loads builds them.                             *)
(* ------------------------------------------------------------------ *)
JNull == [t |-> "null"]
JTrue == [t |-> "bool", b |-> TRUE]
JNum(n) == [t |-> "num", n |-> n]
JStr(s) == [t |-> "str", s |-> s]
JArr(a) == [t |-> "arr", a |-> a]
\* a dict: key/value pairs in insertion order, keys unique
JObj(o) == [t |-> "obj", o |-> o]

Strs == {"defects_found", "total_defects", "defect_type", "confidence",
         "severity", "description", "candidates", "content", "parts", "text",
         "error", "Cold Joint", "High", "Incomplete weld", "Analysis Error",
         "Unknown", "Could not parse AI response properly", "many", "2", "",
         "@fenced", "@prose", "@list", "@badtotal"}
Nums == {0, 1, 2, 50, 92}

Quote(s) == "\"" \o s \o "\""
StringTokens == {Quote(s) : s \in Strs}
NumberTokens == {ToString(n) : n \in Nums}
StrVal(tok) == CHOOSE s \in Strs : Quote(s) = tok
NumVal(tok) == CHOOSE n \in Nums : ToString(n) = tok

\* dict.__contains__, dict.get and dict.__setitem__
HasKey(o, k) == \E i \in 1..Len(o) : o[i][1] = k
Get(o, k) == o[CHOOSE i \in 1..Len(o) : o[i][1] = k][2]
Put(o, k, v) ==
    IF HasKey(o, k)
    THEN [i \in 1..Len(o) |-> IF o[i][1] = k THEN <<k, v>> ELSE o[i]]
    ELSE Append(o, <<k, v>>)

(* ------------------------------------------------------------------ *)
(* json.loads: a recursive-descent decoder over the tokens.            *)
(* ------------------------------------------------------------------ *)
JFail == [ok |-> FALSE, v |-> JNull, i |-> 0]
JOk(v, i) == [ok |-> TRUE, v |-> v, i |-> i]

\* the first position from i on that holds no whitespace
RECURSIVE SkipWs(_, _)
SkipWs(s, i) == IF i <= Len(s) /\ s[i] \in Whitespace THEN SkipWs(s, i + 1) ELSE i

RECURSIVE ParseValue(_, _), ParseElems(_, _, _), ParseMembers(_, _, _)

ParseValue(s, i) ==
    LET j == SkipWs(s, i)
    IN  IF j > Len(s) THEN JFail
        ELSE IF s[j] = "{" THEN
            LET k == SkipWs(s, j + 1)
            IN  IF k <= Len(s) /\ s[k] = "}" THEN JOk(JObj(<<>>), k + 1)
                ELSE ParseMembers(s, k, <<>>)
        ELSE IF s[j] = "[" THEN
            LET k == SkipWs(s, j + 1)
            IN  IF k <= Len(s) /\ s[k] = "]" THEN JOk(JArr(<<>>), k + 1)
                ELSE ParseElems(s, k, <<>>)
        ELSE IF s[j] \in StringTokens THEN JOk(JStr(StrVal(s[j])), j + 1)
        ELSE IF s[j] \in NumberTokens THEN JOk(JNum(NumVal(s[j])), j + 1)
        ELSE IF s[j] = "null" THEN JOk(JNull, j + 1)
        ELSE IF s[j] = "true" THEN JOk(JTrue, j + 1)
        ELSE JFail

ParseElems(s, i, acc) ==
    LET r == ParseValue(s, i)
    IN  IF ~r.ok THEN JFail
        ELSE LET j == SkipWs(s, r.i)
             IN  IF j > Len(s) THEN JFail
                 ELSE IF s[j] = "," THEN ParseElems(s, j + 1, Append(acc, r.v))
                 ELSE IF s[j] = "]" THEN JOk(JArr(Append(acc, r.v)), j + 1)
                 ELSE JFail

ParseMembers(s, i, acc) ==
    LET j == SkipWs(s, i)
    IN  IF j > Len(s) \/ s[j] \notin StringTokens THEN JFail
        ELSE LET c == SkipWs(s, j + 1)
             IN  IF c > Len(s) \/ s[c] # ":" THEN JFail
                 ELSE LET r == ParseValue(s, c + 1)
                      IN  IF ~r.ok THEN JFail
                          ELSE LET e == SkipWs(s, r.i)
                                   o == Put(acc, StrVal(s[j]), r.v)
                               IN  IF e > Len(s) THEN JFail
                                   ELSE IF s[e] = "," THEN ParseMembers(s, e + 1, o)
                                   ELSE IF s[e] = "}" THEN JOk(JObj(o), e + 1)
                                   ELSE JFail

\* json.loads(s): one value, whitespace around it, nothing after it;
\* anything else raises JSONDecodeError
json_loads(s) ==
    LET r == ParseValue(s, 1)
    IN  IF r.ok /\ SkipWs(s, r.i) > Len(s)
        THEN [raised |-> "none", value |-> r.v]
        ELSE [raised |-> "JSONDecodeError", value |-> JNull]

\* json.dumps(v), with the separators ", " and ": " of the default encoder
RECURSIVE json_dumps(_), DumpElems(_), DumpMembers(_)
json_dumps(v) ==
    IF v.t = "null" THEN <<"null">>
    ELSE IF v.t = "bool" THEN <<"true">>
    ELSE IF v.t = "num" THEN <<ToString(v.n)>>
    ELSE IF v.t = "str" THEN <<Quote(v.s)>>
    ELSE IF v.t = "arr" THEN <<"[">> \o DumpElems(v.a) \o <<"]">>
    ELSE <<"{">> \o DumpMembers(v.o) \o <<"}">>

DumpElems(a) ==
    IF Len(a) = 0 THEN <<>>
    ELSE IF Len(a) = 1 THEN json_dumps(a[1])
    ELSE json_dumps(a[1]) \o <<",", " ">> \o DumpElems(Tail(a))

DumpMembers(o) ==
    IF Len(o) = 0 THEN <<>>
    ELSE LET m == <<Quote(o[1][1]), ":", " ">> \o json_dumps(o[1][2])
         IN  IF Len(o) = 1 THEN m ELSE m \o <<",", " ">> \o DumpMembers(Tail(o))

(* ------------------------------------------------------------------ *)
(* Exceptions.  A message is a sequence of phrases; the phrase the     *)
(* handler searches for is one of them.                                *)
(* ------------------------------------------------------------------ *)
NoExc == [type |-> "none", status |-> 0, msg |-> <<>>]
Exc(type, msg) == [type |-> type, status |-> 0, msg |-> msg]
HTTPException(status_code, detail) == [type |-> "HTTPException", status |-> status_code, msg |-> detail]

LEAK_MARKER == "reported as leaked"

(* ------------------------------------------------------------------ *)
(* The pydantic models (pydantic 2, lax mode: an int field takes an    *)
(* int, a bool or a numeric string; a str field takes only a str).     *)
(* ------------------------------------------------------------------ *)
IsNumeric(v) ==
    \/ v.t = "num"
    \/ v.t = "bool"
    \/ v.t = "str" /\ \E n \in Nums : ToString(n) = v.s

NumberOf(v) ==
    IF v.t = "num" THEN v.n
    ELSE IF v.t = "bool" THEN 1
    ELSE CHOOSE n \in Nums : ToString(n) = v.s

DefectFields == <<"defect_type", "confidence", "severity", "description">>

NoDefect == [defect_type |-> "", confidence |-> 0, severity |-> "", description |-> ""]

\* DefectResult(**defect)
DefectResult(defect) ==
    IF defect.t # "obj"
    THEN [exc |-> Exc("TypeError", <<"argument after ** must be a mapping">>), value |-> NoDefect]
    ELSE LET o == defect.o
             valid == /\ \A i \in 1..Len(DefectFields) : HasKey(o, DefectFields[i])
                      /\ Get(o, "defect_type").t = "str"
                      /\ IsNumeric(Get(o, "confidence"))
                      /\ Get(o, "severity").t = "str"
                      /\ Get(o, "description").t = "str"
         IN  IF valid
             THEN [exc |-> NoExc,
                   value |-> [defect_type |-> Get(o, "defect_type").s,
                              confidence |-> NumberOf(Get(o, "confidence")),
                              severity |-> Get(o, "severity").s,
                              description |-> Get(o, "description").s]]
             ELSE [exc |-> Exc("ValidationError", <<"validation error for DefectResult">>),
                   value |-> NoDefect]

NoAnalysis == [id |-> 0, upload_time |-> <<0, 0>>, total_defects |-> 0,
               defects_found |-> <<>>, analysis_complete |-> TRUE]

\* AnalysisResult(total_defects=..., defects_found=...): id and upload_time
\* come from the default factories uuid4 and datetime.utcnow
AnalysisResult(id, upload_time, total_defects, defects_found) ==
    IF IsNumeric(total_defects)
    THEN [exc |-> NoExc,
          value |-> [id |-> id, upload_time |-> upload_time,
                     total_defects |-> NumberOf(total_defects),
                     defects_found |-> defects_found,
                     analysis_complete |-> TRUE]]
    ELSE [exc |-> Exc("ValidationError", <<"validation error for AnalysisResult">>),
          value |-> NoAnalysis]

(* ------------------------------------------------------------------ *)
(* analyze_defects, the part that reads the model's reply.             *)
(* ------------------------------------------------------------------ *)
FENCE_OPEN == <<"BT", "BT", "BT", "j", "s", "o", "n">>
FENCE_CLOSE == <<"BT", "BT", "BT">>
FenceOpenLen == 7
FenceCloseLen == 3

\* a variant that removes the opening marker only
StripFence_OpenOnly(response) ==
    LET t0 == strip(response)
    IN  IF startswith(t0, FENCE_OPEN) THEN SliceFrom(t0, FenceOpenLen) ELSE t0

StripFence(response) ==
    LET t0 == strip(response)
        t1 == IF startswith(t0, FENCE_OPEN) THEN SliceFrom(t0, FenceOpenLen) ELSE t0
    IN  IF endswith(t1, FENCE_CLOSE) THEN SliceDropLast(t1, FenceCloseLen) ELSE t1

\* a variant that reports no defect at all
FALLBACK_Empty ==
    JObj(<< <<"defects_found", JArr(<<>>)>>, <<"total_defects", JNum(0)>> >>)

FALLBACK ==
    JObj(<< <<"defects_found",
              JArr(<< JObj(<< <<"defect_type", JStr("Analysis Error")>>,
                              <<"confidence", JNum(50)>>,
                              <<"severity", JStr("Unknown")>>,
                              <<"description", JStr("Could not parse AI response properly")>> >>) >>)>>,
            <<"total_defects", JNum(1)>> >>)

\* try: json.loads(...) except json.JSONDecodeError: the fallback
ParseResponse(response) ==
    LET r == json_loads(StripFence(response))
    IN  IF r.raised = "JSONDecodeError" THEN FALLBACK ELSE r.value

\* type(x).__name__, for the AttributeError text
PyType(v) ==
    IF v.t = "arr" THEN "list" ELSE IF v.t = "num" THEN "int"
    ELSE IF v.t = "null" THEN "NoneType" ELSE v.t

\* for defect in x: the items a Python for loop visits, or TypeError
Iterate(x) ==
    IF x.t = "arr" THEN [exc |-> NoExc, items |-> x.a]
    ELSE IF x.t = "obj" THEN [exc |-> NoExc, items |-> [i \in 1..Len(x.o) |-> JStr(x.o[i][1])]]
    ELSE IF x.t = "str" /\ x.s = "" THEN [exc |-> NoExc, items |-> <<>>]
    ELSE IF x.t = "str" THEN [exc |-> NoExc, items |-> <<JStr(x.s)>>]
    ELSE [exc |-> Exc("TypeError", <<"object is not iterable">>), items |-> <<>>]

\* [DefectResult(**defect) for defect in analysis_data.get("defects_found", [])]
BuildDefects(analysis_data) ==
    IF analysis_data.t # "obj"
    THEN [exc |-> Exc("AttributeError", <<PyType(analysis_data), " object has no attribute 'get'">>),
          value |-> <<>>]
    ELSE LET found == IF HasKey(analysis_data.o, "defects_found")
                      THEN Get(analysis_data.o, "defects_found") ELSE JArr(<<>>)
             it == Iterate(found)
             built == [i \in 1..Len(it.items) |-> DefectResult(it.items[i])]
             bad == {i \in 1..Len(built) : built[i].exc.type # "none"}
         IN  IF it.exc.type # "none" THEN [exc |-> it.exc, value |-> <<>>]
             ELSE IF bad # {} THEN [exc |-> built[Min(bad)].exc, value |-> <<>>]
             ELSE [exc |-> NoExc, value |-> [i \in 1..Len(built) |-> built[i].value]]

\* the reply decoded, with the fallback in place of a reply that is no JSON,
\* and the defects built from it
ReadReply(response) ==
    LET analysis_data == ParseResponse(response)
    IN  [jsonError |-> json_loads(StripFence(response)).raised # "none",
         analysis_data |-> analysis_data,
         defects |-> BuildDefects(analysis_data)]

\* AnalysisResult(total_defects=analysis_data.get("total_defects", len(defects)),
\*                defects_found=defects), d the outcome of building the defects
\* a variant that always counts the list
BuildAnalysis_CountsList(analysis_data, d, id, upload_time) ==
    IF d.exc.type # "none" THEN [exc |-> d.exc, value |-> NoAnalysis]
    ELSE AnalysisResult(id, upload_time, JNum(Len(d.value)), d.value)

BuildAnalysis(analysis_data, d, id, upload_time) ==
    IF d.exc.type # "none" THEN [exc |-> d.exc, value |-> NoAnalysis]
    ELSE AnalysisResult(id, upload_time,
                        IF HasKey(analysis_data.o, "total_defects")
                        THEN Get(analysis_data.o, "total_defects")
                        ELSE JNum(Len(d.value)),
                        d.value)

(* ------------------------------------------------------------------ *)
(* Replies of the model endpoint used as inputs.                       *)
(* ------------------------------------------------------------------ *)
D_COLD == JObj(<< <<"defect_type", JStr("Cold Joint")>>, <<"confidence", JNum(92)>>,
                  <<"severity", JStr("High")>>, <<"description", JStr("Incomplete weld")>> >>)
D_SHORT == JObj(<< <<"defect_type", JStr("Cold Joint")>> >>)
D_STRCONF == JObj(<< <<"defect_type", JStr("Cold Joint")>>, <<"confidence", JStr("many")>>,
                     <<"severity", JStr("High")>>, <<"description", JStr("Incomplete weld")>> >>)

Reply(defects, total) == JObj(<< <<"defects_found", defects>>, <<"total_defects", total>> >>)

V_EMPTY == Reply(JArr(<<>>), JNum(0))
V_ONE == Reply(JArr(<<D_COLD>>), JNum(1))
V_TWO == Reply(JArr(<<D_COLD, D_COLD>>), JNum(2))
V_MISMATCH == Reply(JArr(<<D_COLD>>), JNum(2))
V_NOTOTAL == JObj(<< <<"defects_found", JArr(<<D_COLD>>)>> >>)
V_NODEFECTS == JObj(<< <<"total_defects", JNum(2)>> >>)
V_BADTOTAL == Reply(JArr(<<D_COLD>>), JStr("many"))
V_STRTOTAL == Reply(JArr(<<D_COLD>>), JStr("2"))
V_NULLTOTAL == Reply(JArr(<<D_COLD>>), JNull)

\* replies that decode to a JSON object
ObjectValues == {V_EMPTY, V_ONE, V_TWO, V_MISMATCH, V_NOTOTAL, V_NODEFECTS,
                 V_BADTOTAL, V_STRTOTAL, V_NULLTOTAL, JObj(<<>>),
                 Reply(JArr(<<JNum(2)>>), JNum(1)),
                 Reply(JArr(<<D_SHORT>>), JNum(1)),
                 Reply(JArr(<<D_STRCONF>>), JNum(1)),
                 Reply(JNull, JNum(0)),
                 Reply(JObj(<<>>), JNum(0))}
\* replies that decode to JSON that is no object
OtherValues == {JArr(<<>>), JArr(<<D_COLD>>), JNum(2), JStr("many"), JNull, JTrue}

\* replies that are not JSON: prose, a reply cut off by the output limit,
\* a trailing comma, two values
NotJson == {<<"Sorry", " ", "no", " ", "image">>,
            SliceDropLast(json_dumps(V_ONE), 1),
            <<"[", "1", ",", "]">>,
            json_dumps(V_EMPTY) \o <<"\n">> \o json_dumps(V_EMPTY),
            <<>>}

Payloads == {json_dumps(v) : v \in ObjectValues \cup OtherValues} \cup NotJson

Wrappings == {"plain", "fenced", "fenced lines", "padded", "fenced padded",
              "bare fence", "open only", "close only", "prose first"}

Wrap(w, p) ==
    CASE w = "plain" -> p
      [] w = "fenced" -> FENCE_OPEN \o p \o FENCE_CLOSE
      [] w = "fenced lines" -> FENCE_OPEN \o <<"\n">> \o p \o <<"\n">> \o FENCE_CLOSE
      [] w = "padded" -> <<"\n", " ">> \o p \o <<" ", "\n">>
      [] w = "fenced padded" -> <<" ">> \o FENCE_OPEN \o <<"\n">> \o p \o <<"\n">> \o FENCE_CLOSE \o <<"\n">>
      [] w = "bare fence" -> FENCE_CLOSE \o <<"\n">> \o p \o <<"\n">> \o FENCE_CLOSE
      [] w = "open only" -> FENCE_OPEN \o <<"\n">> \o p
      [] w = "close only" -> p \o <<"\n">> \o FENCE_CLOSE
      [] w = "prose first" -> <<"Sorry", "\n">> \o FENCE_OPEN \o <<"\n">> \o p \o <<"\n">> \o FENCE_CLOSE

\* the characters of the string literals that stand for whole replies
TextNames == {"@fenced", "@prose", "@list", "@badtotal"}
TextOf(s) ==
    CASE s = "@fenced" -> Wrap("fenced lines", json_dumps(V_ONE))
      [] s = "@prose" -> <<"Sorry", " ", "no", " ", "image">>
      [] s = "@list" -> json_dumps(JArr(<<D_COLD>>))
      [] s = "@badtotal" -> json_dumps(V_BADTOTAL)
      [] OTHER -> <<s>>

(* ------------------------------------------------------------------ *)
(* LlmChat.send_message and create_gemini_chat.                        *)
(* ------------------------------------------------------------------ *)
\* bool(x) of an API key
KeySet(key) == key \notin {None, ""}

KEY_MISSING == <<"GOOGLE_API_KEY is not set in the environment. Please set a valid Gemini API key.">>

create_gemini_chat(key) ==
    IF ~KeySet(key) THEN Exc("RuntimeError", KEY_MISSING) ELSE NoExc

\* bool(x) of a JSON value
Truthy(v) ==
    CASE v.t = "null" -> FALSE
      [] v.t = "bool" -> v.b
      [] v.t = "num" -> v.n # 0
      [] v.t = "str" -> v.s # ""
      [] v.t = "arr" -> Len(v.a) > 0
      [] v.t = "obj" -> Len(v.o) > 0

StatusForbidden == 403

\* Response.is_success
IsSuccess(status) == 200 <= status /\ status <= 299

\* Response.raise_for_status(): the message names the status and the URL,
\* which carries the key
StatusError(status, key) ==
    Exc("HTTPStatusError", <<"Client error '", ToString(status), "' for url '", key, "'">>)

LEAKED == <<"Your Gemini API key was ", LEAK_MARKER,
            " and is blocked. Please generate a new key and update GOOGLE_API_KEY.">>

\* the first candidate's text parts joined, or the envelope serialised
ExtractText(data) ==
    LET dumped == [exc |-> NoExc, text |-> json_dumps(data)]
        raise(type, msg) == [exc |-> Exc(type, <<msg>>), text |-> <<>>]
    IN  IF ~(data.t = "obj" /\ HasKey(data.o, "candidates")
                            /\ Truthy(Get(data.o, "candidates")))
        THEN dumped
        ELSE LET cands == Get(data.o, "candidates")
             IN  IF cands.t = "obj" THEN raise("KeyError", "0")
                 ELSE IF cands.t # "arr" /\ cands.t # "str"
                 THEN raise("TypeError", "object is not subscriptable")
                 ELSE LET cand == IF cands.t = "arr" THEN cands.a[1] ELSE cands
                      IN  IF cand.t # "obj"
                          THEN raise("AttributeError", "object has no attribute 'get'")
                          ELSE LET content == IF HasKey(cand.o, "content")
                                              THEN Get(cand.o, "content") ELSE JObj(<<>>)
                               IN  IF content.t # "obj"
                                   THEN raise("AttributeError", "object has no attribute 'get'")
                                   ELSE LET parts == IF HasKey(content.o, "parts")
                                                     THEN Get(content.o, "parts") ELSE JArr(<<>>)
                                            it == Iterate(parts)
                                            withText == SelectSeq(it.items,
                                                LAMBDA q : q.t = "obj" /\ HasKey(q.o, "text"))
                                            texts == [i \in 1..Len(withText) |-> Get(withText[i].o, "text")]
                                        IN  IF it.exc.type # "none" THEN [exc |-> it.exc, text |-> <<>>]
                                            ELSE IF Len(texts) = 0 THEN dumped
                                            ELSE IF \E i \in 1..Len(texts) : texts[i].t # "str"
                                            THEN raise("TypeError", "expected str instance")
                                            ELSE [exc |-> NoExc,
                                                  text |-> join([i \in 1..Len(texts) |-> TextOf(texts[i].s)])]

NoNet == "none"

\* a variant that looks for the leaked-key phrase under any status
send_message_AnyStatus(key, upstream) ==
    IF ~KeySet(key)
    THEN [exc |-> Exc("RuntimeError", <<"No API key provided for Gemini.">>), text |-> <<>>]
    ELSE IF upstream.net # NoNet
    THEN [exc |-> Exc(upstream.net, <<upstream.net>>), text |-> <<>>]
    ELSE IF Contains(upstream.body, LEAK_MARKER)
    THEN [exc |-> Exc("RuntimeError", LEAKED), text |-> <<>>]
    ELSE IF ~IsSuccess(upstream.status)
    THEN [exc |-> StatusError(upstream.status, key), text |-> <<>>]
    ELSE LET r == json_loads(upstream.body)
         IN  IF r.raised # "none"
             THEN [exc |-> Exc("JSONDecodeError", <<"Expecting value">>), text |-> <<>>]
             ELSE ExtractText(r.value)

\* upstream: what the POST to the model endpoint comes back with
send_message(key, upstream) ==
    IF ~KeySet(key)
    THEN [exc |-> Exc("RuntimeError", <<"No API key provided for Gemini.">>), text |-> <<>>]
    ELSE IF upstream.net # NoNet
    THEN [exc |-> Exc(upstream.net, <<upstream.net>>), text |-> <<>>]
    ELSE IF upstream.status = StatusForbidden /\ Contains(upstream.body, LEAK_MARKER)
    THEN [exc |-> Exc("RuntimeError", LEAKED), text |-> <<>>]
    ELSE IF ~IsSuccess(upstream.status)
    THEN [exc |-> StatusError(upstream.status, key), text |-> <<>>]
    ELSE LET r == json_loads(upstream.body)
         IN  IF r.raised # "none"
             THEN [exc |-> Exc("JSONDecodeError", <<"Expecting value">>), text |-> <<>>]
             ELSE ExtractText(r.value)

(* ------------------------------------------------------------------ *)
(* Timestamps: datetime.utcnow() is <<second, microsecond>>.           *)
(* ------------------------------------------------------------------ *)
Digit(c) == CHOOSE d \in 0..9 : ToString(d) = c

\* datetime.isoformat(): the fraction is left out when it is zero
isoformat(dt) ==
    IF dt[2] = 0 THEN <<ToString(dt[1])>> ELSE <<ToString(dt[1]), ".", ToString(dt[2])>>

\* datetime.fromisoformat()
fromisoformat(s) ==
    IF Len(s) = 1 THEN <<Digit(s[1]), 0>> ELSE <<Digit(s[1]), Digit(s[3])>>

\* code points, and the order of strings in a sort of the store
Ord(c) == IF c = "." THEN 46 ELSE 48 + Digit(c)

StrLess(a, b) ==
    \E i \in 1..(Len(a) + 1) :
        /\ i <= Len(b)
        /\ \A j \in 1..(i - 1) : j <= Len(a) /\ a[j] = b[j]
        /\ i = Len(a) + 1 \/ Ord(a[i]) < Ord(b[i])

(* ------------------------------------------------------------------ *)
(* The HTTP boundary.                                                  *)
(* ------------------------------------------------------------------ *)
NoUpstream == [net |-> NoNet, status |-> 0, body |-> <<>>]
Undeclared == [declared |-> FALSE, v |-> <<>>]
Declared(v) == [declared |-> TRUE, v |-> v]

NoResponse ==
    [op |-> "none", status |-> 0, detail |-> <<>>, fault |-> FALSE,
     success |-> FALSE, analysis |-> <<>>, list |-> <<>>,
     content_type |-> Undeclared, upstream |-> NoUpstream, llm |-> "none",
     jsonError |-> FALSE, dbError |-> FALSE, limit |-> 0, id |-> 0]

\* what the framework sends for an exception that leaves the handler: an
\* HTTPException becomes its status and detail, anything else is a fault
\* the handler did not handle
Raise(base, exc) ==
    IF exc.type = "HTTPException"
    THEN [base EXCEPT !.status = exc.status, !.detail = exc.msg]
    ELSE [base EXCEPT !.status = 500, !.detail = <<>>, !.fault = TRUE]

ONLY_IMAGES == <<"Only image files are supported">>
KEY_BLOCKED == <<"LLM provider (Gemini) blocked the API key because it was ", LEAK_MARKER,
                 ". Please generate a new API key and update GOOGLE_API_KEY in your environment.">>
LLM_FAILED == "Analysis failed while calling LLM: "
ANALYSIS_FAILED == "Analysis failed: "
HISTORY_FAILED == "Failed to fetch history: "
FETCH_FAILED == "Failed to fetch analysis: "
NOT_FOUND == <<"Analysis not found">>

\* variants without the except HTTPException: raise clause
AnalyzeBoundary_CatchAll(exc) == HTTPException(500, <<ANALYSIS_FAILED>> \o exc.msg)

GetBoundary_CatchAll(exc) == HTTPException(500, <<FETCH_FAILED>> \o exc.msg)

\* except HTTPException: raise / except Exception as e: raise HTTPException(500, ...)
AnalyzeBoundary(exc) ==
    IF exc.type = "HTTPException" THEN exc
    ELSE HTTPException(500, <<ANALYSIS_FAILED>> \o exc.msg)

HistoryBoundary(exc) == HTTPException(500, <<HISTORY_FAILED>> \o exc.msg)

GetBoundary(exc) ==
    IF exc.type = "HTTPException" THEN exc
    ELSE HTTPException(500, <<FETCH_FAILED>> \o exc.msg)

\* a variant that compares the prefix without the slash
CheckContentType_NoSlash(content_type) ==
    IF ~content_type.declared
    THEN Exc("AttributeError", <<"'NoneType' object has no attribute 'startswith'">>)
    ELSE IF ~startswith(content_type.v, <<"image">>)
    THEN HTTPException(400, ONLY_IMAGES)
    ELSE NoExc

\* if not file.content_type.startswith("image/")
CheckContentType(content_type) ==
    IF ~content_type.declared
    THEN Exc("AttributeError", <<"'NoneType' object has no attribute 'startswith'">>)
    ELSE IF ~startswith(content_type.v, <<"image", "/">>)
    THEN HTTPException(400, ONLY_IMAGES)
    ELSE NoExc

\* try: chat = create_gemini_chat() except RuntimeError as e: ...
CreateChat(key) ==
    LET e == create_gemini_chat(key)
    IN  IF e.type = "RuntimeError" THEN HTTPException(500, e.msg) ELSE e

\* except Exception as e, around the call of send_message
ModelCallFailed(e) ==
    IF Contains(e.msg, LEAK_MARKER)
    THEN HTTPException(500, KEY_BLOCKED)
    ELSE HTTPException(500, <<LLM_FAILED>> \o e.msg)

\* the driver's error when the store cannot be reached
DB_DOWN == Exc("ServerSelectionTimeoutError", <<"connection refused">>)

\* a variant that dumps the result without its defects
Document_NoDefects(analysis) ==
    [analysis EXCEPT !.upload_time = isoformat(analysis.upload_time), !.defects_found = <<>>]

\* analysis.model_dump() with upload_time replaced by its isoformat()
Document(analysis) == [analysis EXCEPT !.upload_time = isoformat(analysis.upload_time)]

\* AnalysisResult(**analysis) of a stored document
FromDocument(doc) == [doc EXCEPT !.upload_time = fromisoformat(doc.upload_time)]

(* ------------------------------------------------------------------ *)
(* Inputs of the requests.                                             *)
(* ------------------------------------------------------------------ *)
ApiKeys == {None, "", "AIza-key"}

ContentTypes == {Undeclared, Declared(<<>>), Declared(<<"text", "/", "plain">>),
                 Declared(<<"image">>), Declared(<<"images", "/", "png">>),
                 Declared(<<"image", "/", "png">>)}

Envelope(parts) ==
    JObj(<< <<"candidates",
              JArr(<< JObj(<< <<"content", JObj(<< <<"parts", JArr(parts)>> >>)>> >>) >>)>> >>)
Part(s) == JObj(<< <<"text", JStr(s)>> >>)
Answer(status, body) == [net |-> NoNet, status |-> status, body |-> body]

LEAK_BODY == <<"Your API key was ", LEAK_MARKER, ". Please use another API key.">>

Upstreams ==
    {[net |-> n, status |-> 0, body |-> <<>>] : n \in {"ConnectError", "ReadTimeout"}}
    \cup {Answer(403, LEAK_BODY), Answer(403, <<"Permission denied">>),
          Answer(400, LEAK_BODY), Answer(500, <<"Internal error">>),
          Answer(200, <<"<html>">>),
          Answer(200, json_dumps(JObj(<< <<"candidates", JArr(<<JNum(2)>>)>> >>))),
          Answer(200, json_dumps(JArr(<<>>))),
          Answer(200, json_dumps(Envelope(<<Part("@prose"), Part("@prose")>>)))}
    \cup {Answer(200, json_dumps(Envelope(<<Part(s)>>))) : s \in TextNames}

(* ------------------------------------------------------------------ *)
(* State.                                                              *)
(* ------------------------------------------------------------------ *)
VARIABLES
    GOOGLE_API_KEY,  \* the key read from the environment at start
    analyses,        \* db.analyses: the documents, in insertion order
    now,             \* what datetime.utcnow() returned last
    uuids,           \* how many ids uuid4() has handed out
    task,            \* the analyze requests: where each one stands
    resp,            \* the response the last step sent, with the request it answers
    returned,        \* the analyses sent back with success=true, in order
    parser           \* the reply under test, for the parser on its own

vars == <<GOOGLE_API_KEY, analyses, now, uuids, task, resp, returned, parser>>

Requests == 1..MaxReq

NewTask == [pc |-> "new", content_type |-> Undeclared, jsonError |-> FALSE,
            analysis |-> NoAnalysis]
DoneTask == [NewTask EXCEPT !.pc = "done"]

NoParser == [on |-> FALSE, payload |-> <<>>, wrapping |-> "plain",
             wrapped |-> <<>>, unwrapped |-> <<>>]

Init ==
    /\ GOOGLE_API_KEY \in ApiKeys
    /\ analyses = <<>>
    /\ now = <<0, 0>>
    /\ uuids = 0
    /\ task = [r \in Requests |-> NewTask]
    /\ resp = NoResponse
    /\ returned = <<>>
    /\ parser = NoParser

\* the readings datetime.utcnow() can give after the reading last: the same
\* microsecond again, or a later one
Times == {<<sec, usec>> : sec \in 0..MaxSec, usec \in {0, 1}}
Later(last) == {t \in Times : t[1] > last[1] \/ (t[1] = last[1] /\ t[2] >= last[2])}

\* analyze_defects up to the call of the model
AnalyzeReceive(r, content_type) ==
    /\ task[r].pc = "new"
    /\ \A q \in Requests : q < r => task[q].pc # "new"
    /\ LET base == [NoResponse EXCEPT !.op = "analyze", !.content_type = content_type]
           c == CheckContentType(content_type)
           k == CreateChat(GOOGLE_API_KEY)
       IN  IF c.type # "none"
           THEN /\ resp' = Raise(base, AnalyzeBoundary(c))
                /\ task' = [task EXCEPT ![r] = DoneTask]
           ELSE IF k.type # "none"
           THEN /\ resp' = Raise(base, AnalyzeBoundary(k))
                /\ task' = [task EXCEPT ![r] = DoneTask]
           ELSE /\ resp' = NoResponse
                /\ task' = [task EXCEPT ![r].pc = "llm", ![r].content_type = content_type]
    /\ UNCHANGED <<GOOGLE_API_KEY, analyses, now, uuids, returned, parser>>

\* for every key and every answer of the model endpoint: what send_message
\* makes of it, and the reply it returns decoded and its defects built
Reading ==
    [key \in ApiKeys, upstream \in Upstreams |->
        LET sent == send_message(key, upstream)
        IN  [m |-> sent, read |-> ReadReply(sent.text)]]

\* the model call comes back; the reply is read and the result built
AnalyzeReply(r, upstream) ==
    /\ task[r].pc = "llm"
    /\ LET base == [NoResponse EXCEPT !.op = "analyze",
                                      !.content_type = task[r].content_type,
                                      !.upstream = upstream]
           m == Reading[GOOGLE_API_KEY, upstream].m
           read == Reading[GOOGLE_API_KEY, upstream].read
           jsonError == read.jsonError
           analysis_data == read.analysis_data
           defects == read.defects
       IN  IF m.exc.type # "none"
           THEN /\ resp' = Raise([base EXCEPT !.llm = "raised"],
                                 AnalyzeBoundary(ModelCallFailed(m.exc)))
                /\ task' = [task EXCEPT ![r] = DoneTask]
                /\ UNCHANGED <<uuids, now>>
           ELSE \E utcnow \in Later(now) :
                  LET b == BuildAnalysis(analysis_data, defects, uuids + 1, utcnow)
                  IN  IF b.exc.type # "none"
                      THEN /\ resp' = Raise([base EXCEPT !.llm = "returned",
                                                         !.jsonError = jsonError],
                                            AnalyzeBoundary(b.exc))
                           /\ task' = [task EXCEPT ![r] = DoneTask]
                           /\ UNCHANGED <<uuids, now>>
                      ELSE /\ resp' = NoResponse
                           /\ task' = [task EXCEPT ![r].pc = "insert",
                                                   ![r].jsonError = jsonError,
                                                   ![r].analysis = b.value]
                           /\ uuids' = uuids + 1
                           /\ now' = utcnow
    /\ UNCHANGED <<GOOGLE_API_KEY, analyses, returned, parser>>

\* await db.analyses.insert_one(analysis_dict) comes back, and the response
AnalyzeInsert(r, dbOk) ==
    /\ task[r].pc = "insert"
    /\ LET base == [NoResponse EXCEPT !.op = "analyze",
                                      !.content_type = task[r].content_type,
                                      !.llm = "returned",
                                      !.jsonError = task[r].jsonError]
       IN  IF dbOk
           THEN /\ analyses' = Append(analyses, Document(task[r].analysis))
                /\ resp' = [base EXCEPT !.status = 200, !.success = TRUE,
                                        !.analysis = <<task[r].analysis>>]
                /\ returned' = Append(returned, task[r].analysis)
           ELSE /\ analyses' = analyses
                /\ resp' = Raise([base EXCEPT !.dbError = TRUE], AnalyzeBoundary(DB_DOWN))
                /\ returned' = returned
    /\ task' = [task EXCEPT ![r] = DoneTask]
    /\ UNCHANGED <<GOOGLE_API_KEY, now, uuids, parser>>

\* a variant that sorts oldest first
SortedDescending_Ascending(docs) ==
    {p \in [1..Len(docs) -> 1..Len(docs)] :
        /\ \A i, j \in 1..Len(docs) : i # j => p[i] # p[j]
        /\ \A i, j \in 1..Len(docs) :
             i < j => ~StrLess(docs[p[j]].upload_time, docs[p[i]].upload_time)}

\* the orders find().sort("upload_time", -1) may return the documents in:
\* descending by the stored string, documents with equal strings in any order
SortedDescending(docs) ==
    {p \in [1..Len(docs) -> 1..Len(docs)] :
        /\ \A i, j \in 1..Len(docs) : i # j => p[i] # p[j]
        /\ \A i, j \in 1..Len(docs) :
             i < j => ~StrLess(docs[p[i]].upload_time, docs[p[j]].upload_time)}

\* cursor.limit(limit) and to_list(length=limit), limit > 0
Limit(docs, limit) == SubSeq(docs, 1, IF limit < Len(docs) THEN limit ELSE Len(docs))

get_analysis_history(limit, dbOk) ==
    /\ LET base == [NoResponse EXCEPT !.op = "history", !.limit = limit]
       IN  IF dbOk
           THEN \E p \in SortedDescending(analyses) :
                  LET found == Limit([i \in 1..Len(analyses) |-> analyses[p[i]]], limit)
                  IN  resp' = [base EXCEPT !.status = 200,
                                           !.list = [i \in 1..Len(found) |-> FromDocument(found[i])]]
           ELSE resp' = Raise([base EXCEPT !.dbError = TRUE], HistoryBoundary(DB_DOWN))
    /\ UNCHANGED <<GOOGLE_API_KEY, analyses, now, uuids, task, returned, parser>>

\* db.analyses.find_one({"id": analysis_id}): the first match, or None
find_one(docs, analysis_id) ==
    LET hits == {i \in 1..Len(docs) : docs[i].id = analysis_id}
    IN  IF hits = {} THEN <<>> ELSE <<docs[Min(hits)]>>

get_analysis(analysis_id, dbOk) ==
    /\ LET base == [NoResponse EXCEPT !.op = "get", !.id = analysis_id]
           found == find_one(analyses, analysis_id)
       IN  IF ~dbOk
           THEN resp' = Raise([base EXCEPT !.dbError = TRUE], GetBoundary(DB_DOWN))
           ELSE IF found = <<>>
           THEN resp' = Raise(base, GetBoundary(HTTPException(404, NOT_FOUND)))
           ELSE resp' = [base EXCEPT !.status = 200,
                                     !.analysis = <<FromDocument(found[1])>>]
    /\ UNCHANGED <<GOOGLE_API_KEY, analyses, now, uuids, task, returned, parser>>

Next ==
    \/ \E r \in Requests, c \in ContentTypes : AnalyzeReceive(r, c)
    \/ \E r \in Requests, u \in Upstreams : AnalyzeReply(r, u)
    \/ \E r \in Requests, ok \in BOOLEAN : AnalyzeInsert(r, ok)
    \/ \E limit \in 1..MaxReq, ok \in BOOLEAN : get_analysis_history(limit, ok)
    \/ \E id \in 1..(MaxReq + 1), ok \in BOOLEAN : get_analysis(id, ok)

Spec == Init /\ [][Next]_vars

(* ------------------------------------------------------------------ *)
(* The reading of a reply on its own (lines 227-257): one payload, as  *)
(* the model sent it inside a wrapping and as it is without one.       *)
(* ------------------------------------------------------------------ *)
\* what lines 227-257 make of a reply: the decoded data, and the result or
\* the exception that leaves the block
Read(response) ==
    LET read == ReadReply(response)
        b == BuildAnalysis(read.analysis_data, read.defects, 1, <<0, 0>>)
    IN  [jsonError |-> read.jsonError, analysis_data |-> read.analysis_data,
         exc |-> b.exc, analysis |-> b.value]

InitParser ==
    /\ GOOGLE_API_KEY = "AIza-key"
    /\ analyses = <<>>
    /\ now = <<0, 0>>
    /\ uuids = 0
    /\ task = [r \in Requests |-> NewTask]
    /\ resp = NoResponse
    /\ returned = <<>>
    /\ \E p \in Payloads, w \in Wrappings :
         parser = [on |-> TRUE, payload |-> p, wrapping |-> w,
                   wrapped |-> <<>>, unwrapped |-> <<>>]

ReadWrapped ==
    /\ parser.on /\ parser.wrapped = <<>>
    /\ parser' = [parser EXCEPT !.wrapped = <<Read(Wrap(parser.wrapping, parser.payload))>>]
    /\ UNCHANGED <<GOOGLE_API_KEY, analyses, now, uuids, task, resp, returned>>

ReadUnwrapped ==
    /\ parser.on /\ parser.unwrapped = <<>>
    /\ parser' = [parser EXCEPT !.unwrapped = <<Read(parser.payload)>>]
    /\ UNCHANGED <<GOOGLE_API_KEY, analyses, now, uuids, task, resp, returned>>

NextParser == ReadWrapped \/ ReadUnwrapped

SpecParser == InitParser /\ [][NextParser]_vars

(* ------------------------------------------------------------------ *)
(* The claims.                                                         *)
(* ------------------------------------------------------------------ *)
BeginsWithImage(ct) == ct.declared /\ Len(ct.v) >= 2 /\ ct.v[1] = "image" /\ ct.v[2] = "/"

Ids(seq) == {seq[i].id : i \in 1..Len(seq)}

\* before, for two readings of the clock
Before(a, b) == a[1] < b[1] \/ (a[1] = b[1] /\ a[2] < b[2])

\* C1: an analyze request whose declared content type does not begin with
\* "image/" is answered 400 and leaves the store as it was, whatever the key
\* and whatever the model endpoint would do.
C1_NonImageRejected ==
    [][(resp'.op = "analyze" /\ resp'.content_type.declared
                              /\ ~BeginsWithImage(resp'.content_type))
         => (resp'.status = 400 /\ resp'.detail = ONLY_IMAGES /\ ~resp'.success
                                /\ analyses' = analyses)]_vars

C1_Witness ==
    /\ resp.op = "analyze" /\ resp.status = 400
    /\ resp.content_type = Declared(<<"text", "/", "plain">>)
    /\ GOOGLE_API_KEY = None

IsSentinel(list) ==
    /\ Len(list) = 1
    /\ list[1].defect_type = "Analysis Error"
    /\ list[1].confidence = 50
    /\ list[1].severity = "Unknown"

\* the response carries the sentinel result, and that result is the document
\* inserted last
SentinelStored ==
    /\ resp.status = 200 /\ resp.success /\ Len(resp.analysis) = 1
    /\ IsSentinel(resp.analysis[1].defects_found)
    /\ resp.analysis[1].total_defects = 1
    /\ Len(analyses) > 0
    /\ analyses[Len(analyses)].id = resp.analysis[1].id
    /\ analyses[Len(analyses)].defects_found = resp.analysis[1].defects_found
    /\ analyses[Len(analyses)].total_defects = 1

\* C2, as claimed: whenever the model call succeeds and the reply is no valid
\* JSON, the response is 200 with success=true and the sentinel result, and
\* that result is inserted.
C2_AsClaimed ==
    (resp.op = "analyze" /\ resp.llm = "returned" /\ resp.jsonError) => SentinelStored

\* C2, amended: the same provided the insert into the store succeeds; when
\* the insert fails the response is 500 and nothing is inserted.
C2_SentinelOnBadJson ==
    (resp.op = "analyze" /\ resp.llm = "returned" /\ resp.jsonError)
      => /\ ~resp.dbError => SentinelStored
         /\ resp.dbError => (resp.status = 500 /\ ~resp.success /\ resp.analysis = <<>>)

C2_Witness == resp.op = "analyze" /\ resp.jsonError /\ resp.success

\* C3: whatever text the model invoker returns, the request does not end in
\* an error status on account of it: with the store working, it completes
\* with success=true.
C3_AsClaimed ==
    (resp.op = "analyze" /\ resp.llm = "returned" /\ ~resp.dbError)
      => (resp.status = 200 /\ resp.success)

LeakAnswer(u) == u.net = NoNet /\ u.status = 403 /\ \E i \in 1..Len(u.body) : u.body[i] = LEAK_MARKER
OtherFailure(u) == u.net # NoNet \/ (~(u.status \in 200..299) /\ ~LeakAnswer(u))

\* C4: with an image and a key, a 403 answer that carries the leaked-key
\* phrase gives 500 with the key-rotation detail; any other non-success
\* status and any network failure give 500 with the generic detail and never
\* the key-rotation one; in both cases nothing is inserted.
C4_LeakedKeyDistinct ==
    [][(resp'.op = "analyze" /\ resp'.upstream # NoUpstream
          /\ (LeakAnswer(resp'.upstream) \/ OtherFailure(resp'.upstream)))
         => /\ resp'.status = 500 /\ ~resp'.success
            /\ analyses' = analyses
            /\ LeakAnswer(resp'.upstream) => resp'.detail = KEY_BLOCKED
            /\ OtherFailure(resp'.upstream)
                 => /\ resp'.detail[1] = LLM_FAILED
                    /\ resp'.detail # KEY_BLOCKED
                    /\ \A i \in 1..Len(resp'.detail) : resp'.detail[i] # KEY_BLOCKED[3]]_vars

C4_Witness ==
    /\ resp.op = "analyze" /\ resp.detail = KEY_BLOCKED
    /\ resp.upstream.status = 403 /\ BeginsWithImage(resp.content_type)

\* the history response lists exactly limit records, strictly newest first
\* by upload time, and they are the limit analyses inserted last
LastInserted(k) == {returned[i].id : i \in (Len(returned) - k + 1)..Len(returned)}

ListsLastInserted ==
    /\ Len(resp.list) = resp.limit
    /\ \A i, j \in 1..Len(resp.list) :
         i < j => Before(resp.list[j].upload_time, resp.list[i].upload_time)
    /\ Ids(resp.list) = LastInserted(resp.limit)

DistinctTimes ==
    \A i, j \in 1..Len(returned) : i # j => returned[i].upload_time # returned[j].upload_time

\* C5, as claimed, and granting it a store that answers and upload times
\* that are all distinct: with more than limit analyses inserted, history
\* returns exactly limit records, newest first, and they are the ones
\* inserted last, whatever the interleaving of the analyze requests.
C5_AsClaimed ==
    (resp.op = "history" /\ resp.status = 200 /\ resp.limit < Len(analyses) /\ DistinctTimes)
      => ListsLastInserted

\* insertion order and upload-time order agree
InsertedInTimeOrder ==
    \A i, j \in 1..Len(returned) :
        i < j => Before(returned[i].upload_time, returned[j].upload_time)

\* C5, amended: when the store answers, history returns min(limit, N)
\* records, each a stored analysis listed once, in non-increasing upload-time
\* order, and no analysis left out has a later upload time than one listed;
\* they are the ones inserted last when upload times grow with the order of
\* insertion, which concurrent requests do not guarantee.
C5_HistoryByUploadTime ==
    (resp.op = "history" /\ ~resp.dbError)
      => /\ resp.status = 200
         /\ Len(resp.list) = (IF resp.limit < Len(analyses) THEN resp.limit ELSE Len(analyses))
         /\ \A i \in 1..Len(resp.list) : \E k \in 1..Len(returned) : resp.list[i] = returned[k]
         /\ \A i, j \in 1..Len(resp.list) : i # j => resp.list[i].id # resp.list[j].id
         /\ \A i, j \in 1..Len(resp.list) :
              i < j => ~Before(resp.list[i].upload_time, resp.list[j].upload_time)
         /\ \A k \in 1..Len(returned) :
              returned[k].id \notin Ids(resp.list)
                => \A i \in 1..Len(resp.list) :
                     ~Before(resp.list[i].upload_time, returned[k].upload_time)
         /\ (InsertedInTimeOrder /\ resp.limit < Len(analyses)) => ListsLastInserted

\* history answered with fewer records than are stored, and the one listed
\* is not the one inserted last
C5_Witness ==
    /\ resp.op = "history" /\ resp.status = 200 /\ resp.limit < Len(analyses)
    /\ DistinctTimes
    /\ Ids(resp.list) # LastInserted(resp.limit)

Results == parser.wrapped \o parser.unwrapped

\* C6: for a reply that decodes to a JSON object, the total_defects of the
\* result is the reply's own total_defects when the reply has one (also when
\* it differs from the number of defects), and the number of defects when it
\* has none; so the two agree whenever the reply sets them consistently.
C6_TotalFromReply ==
    \A n \in 1..Len(Results) :
        LET res == Results[n]
            o == res.analysis_data.o
            total == res.analysis.total_defects
            count == Len(res.analysis.defects_found)
        IN  (~res.jsonError /\ res.analysis_data.t = "obj" /\ res.exc.type = "none")
              => IF \E i \in 1..Len(o) : o[i][1] = "total_defects"
                 THEN LET field == o[CHOOSE i \in 1..Len(o) : o[i][1] = "total_defects"][2]
                      IN  /\ field.t \in {"num", "str"}
                          /\ field.t = "num" => total = field.n
                          /\ field.t = "str" => ToString(total) = field.s
                 ELSE total = count

C6_Witness ==
    /\ Len(parser.unwrapped) = 1
    /\ ~parser.unwrapped[1].jsonError
    /\ parser.unwrapped[1].exc.type = "none"
    /\ parser.unwrapped[1].analysis.total_defects = 2
    /\ Len(parser.unwrapped[1].analysis.defects_found) = 1

FencedWrappings == {"fenced", "fenced lines", "fenced padded"}

\* C7: a payload inside the fence markers reads the same as the payload on
\* its own: the same decoded data, the same defects_found and total_defects,
\* or the same failure.
C7_FenceTransparent ==
    (parser.on /\ parser.wrapping \in FencedWrappings
               /\ Len(parser.wrapped) = 1 /\ Len(parser.unwrapped) = 1)
      => parser.wrapped[1] = parser.unwrapped[1]

C7_Witness ==
    /\ parser.on /\ parser.wrapping = "fenced lines"
    /\ Len(parser.wrapped) = 1 /\ Len(parser.unwrapped) = 1
    /\ ~parser.wrapped[1].jsonError
    /\ parser.wrapped[1].exc.type = "none"
    /\ Len(parser.wrapped[1].analysis.defects_found) = 2

NeverInserted(id) == \A i \in 1..Len(analyses) : analyses[i].id # id

\* C8, as claimed: get-by-id for an id never inserted answers 404, "Analysis
\* not found".
C8_AsClaimed ==
    (resp.op = "get" /\ NeverInserted(resp.id))
      => (resp.status = 404 /\ resp.detail = NOT_FOUND)

\* C8, amended: get-by-id for an id never inserted answers 404 when the
\* store answers and 500, "Failed to fetch analysis", when it does not, and
\* in neither case a record; a record returned carries the id asked for.
C8_UnknownIdNotFound ==
    /\ (resp.op = "get" /\ NeverInserted(resp.id))
         => /\ resp.analysis = <<>>
            /\ ~resp.dbError => (resp.status = 404 /\ resp.detail = NOT_FOUND)
            /\ resp.dbError => (resp.status = 500 /\ resp.detail[1] = FETCH_FAILED)
    /\ (resp.op = "get" /\ resp.status = 200)
         => (Len(resp.analysis) = 1 /\ resp.analysis[1].id = resp.id)

C8_Witness ==
    /\ resp.op = "get" /\ resp.status = 404 /\ Len(analyses) > 0
    /\ NeverInserted(resp.id)

\* C9: every error below the HTTP boundary leaves the handler as a status
\* 400, 404 or 500 with a detail, never as an unhandled fault, and a status
\* chosen inside the handler is not replaced by the generic 500.
C9_ErrorsTranslated ==
    resp.op # "none"
      => /\ ~resp.fault
         /\ resp.status \in {200, 400, 404, 500}
         /\ resp.status # 200 => (Len(resp.detail) > 0 /\ ~resp.success)
         /\ (resp.op = "analyze" /\ resp.content_type.declared
                                 /\ ~BeginsWithImage(resp.content_type))
              => (resp.status = 400 /\ resp.detail = ONLY_IMAGES)
         /\ (resp.op = "analyze" /\ ~resp.content_type.declared)
              => (resp.status = 500 /\ resp.detail[1] = ANALYSIS_FAILED)
         /\ (resp.op = "analyze" /\ BeginsWithImage(resp.content_type)
                                 /\ GOOGLE_API_KEY \in {None, ""})
              => (resp.status = 500 /\ resp.detail = KEY_MISSING)
         /\ (resp.op = "analyze" /\ resp.llm = "raised")
              => (resp.status = 500 /\ (resp.detail = KEY_BLOCKED \/ resp.detail[1] = LLM_FAILED))
         /\ (resp.op = "analyze" /\ resp.llm = "returned" /\ resp.status # 200)
              => (resp.status = 500 /\ resp.detail[1] = ANALYSIS_FAILED)
         /\ (resp.op = "history" /\ resp.dbError)
              => (resp.status = 500 /\ resp.detail[1] = HISTORY_FAILED)
         /\ (resp.op = "get" /\ resp.dbError)
              => (resp.status = 500 /\ resp.detail[1] = FETCH_FAILED)
         /\ (resp.op = "get" /\ ~resp.dbError /\ NeverInserted(resp.id))
              => (resp.status = 404 /\ resp.detail = NOT_FOUND)

\* a validation failure of the result, translated
C9_Witness ==
    /\ resp.op = "analyze" /\ resp.llm = "returned" /\ ~resp.dbError
    /\ resp.status = 500 /\ resp.detail[1] = ANALYSIS_FAILED

\* the documents are the results sent back with success=true, one each
StoreMirrors ==
    /\ Len(analyses) = Len(returned)
    /\ \A i \in 1..Len(analyses) :
         /\ analyses[i].id = returned[i].id
         /\ analyses[i].total_defects = returned[i].total_defects
         /\ analyses[i].defects_found = returned[i].defects_found
    /\ \A i, j \in 1..Len(analyses) : i # j => analyses[i].id # analyses[j].id

\* a step changes the store only by appending the result of an analyze
\* request that this step answers with success=true
StoreStep ==
    /\ (resp'.op = "analyze" /\ resp'.status # 200) => analyses' = analyses
    /\ resp'.op \in {"history", "get", "none"} => analyses' = analyses
    /\ analyses' # analyses
         => /\ resp'.op = "analyze" /\ resp'.status = 200 /\ resp'.success
            /\ Len(analyses') = Len(analyses) + 1
            /\ SubSeq(analyses', 1, Len(analyses)) = analyses
            /\ analyses'[Len(analyses')].id = resp'.analysis[1].id

====
